---- MODULE Spec2Model ----
(***************************************************************************)
(* Model of rpy2_R6/R6.py: the metaclass R6Meta (attribute injection at    *)
(* class definition), the synthesis of local classes from R6 class         *)
(* generators (r6_createcls), the class cache _CLASSMAP with its static    *)
(* and dynamic policies, and the class-generator proxies.                  *)
(*                                                                         *)
(* The specifications share the state:                                     *)
(*   Spec        wrapping handles and calling new(), one handler per step  *)
(*   SpecSynth   r6_createcls on one descriptor                            *)
(*   SpecDefine  class statements under R6Meta                             *)
(*   SpecMeta    class statements under R6Meta and attribute access        *)
(*   SpecConc    threads in _dynamic_classmap, one statement per step      *)
(***************************************************************************)
EXTENDS Integers, Sequences, FiniteSets, TLC

VARIABLES classes,   \* every class object created so far, by class id
          classmap,  \* _CLASSMAP: rid -> class id, 0 when rid is not a key
          proxy,     \* the R6ClassGenerator instance last constructed
          result,    \* what the last operation returned or raised
          th         \* the threads of SpecConc: position and locals

vars == <<classes, classmap, proxy, result, th>>

(***************************************************************************)
(* Bounds.                                                                 *)
(***************************************************************************)
MaxRid == 2           \* foreign objects (rid values) 1..MaxRid
MaxArgs == 1          \* longest argument list passed to a call
MaxUserClasses == 3   \* class statements executed in SpecMeta
NumThreads == 2       \* threads of SpecConc
MaxBuilds == 3        \* classes synthesized in SpecConc

Rids == 1..MaxRid
Threads == 1..NumThreads

(***************************************************************************)
(* Values of Python and of R.                                              *)
(***************************************************************************)
NULL == "NULL"            \* rpy2.robjects.NULL
None == "None"            \* a table entry None: forward as a plain function
Property == "property"    \* a table entry property: forward as a property

Names == {"push", "pop", "size"}
ClassNames == {"Stack"}
ArgValues == {5}

RECURSIVE SeqsUpTo(_, _)
SeqsUpTo(S, n) ==
  IF n = 0 THEN {<<>>}
  ELSE LET shorter == SeqsUpTo(S, n - 1)
       IN shorter \cup {Append(s, x) : s \in {t \in shorter : Len(t) = n - 1}, x \in S}

ArgLists == SeqsUpTo(ArgValues, MaxArgs)

\* A value handed back to the caller. tag says what it is:
\*   "none"      nothing (None)
\*   "rattr"     the R attribute `name` of the R object `of`, as fetched by `$`
\*   "rcall"     the result of calling the R attribute `name` of `of` with args
\*   "explicit"  the attribute `name` as declared in the body of class `of`
\*   "method"    the injected function inner of class `of`, bound to an instance
Val(tag, of, name, args) == [tag |-> tag, of |-> of, name |-> name, args |-> args]
NoVal == Val("none", 0, "", <<>>)

\* dollar(obj, name): fetch, never call.
dollar(obj, name) == Val("rattr", obj, name, <<>>)

\* Calling a fetched R attribute, the (*args, **kwargs) of lines 86 and 122.
Invoke(f, args) == Val("rcall", f.of, f.name, args)

(***************************************************************************)
(* Class objects.  A class is a record                                     *)
(*   name, bases, mro   as type.__new__ sets them (ids into classes)       *)
(*   hastable, table    the entry __DEFAULT_ATTRS__ of the class's own     *)
(*                      dict: name -> None | property                      *)
(*   attrs              the other entries of the class's own dict:         *)
(*                      name -> [kind, owner], kind "explicit" for what    *)
(*                      the class body declares, "function" for an         *)
(*                      injected dollar_getter(key), "property" for an     *)
(*                      injected property(dollar_getter(key)); owner is    *)
(*                      the class whose definition made the object         *)
(*   gen                the rid of __R6CLASSGENERATOR__, 0 when absent     *)
(*   init               "_r6__init__" when the dict holds that __init__    *)
(* A class body (the attrs argument of the metaclass) is a record          *)
(*   hastable, table, declared, gen, init.                                 *)
(***************************************************************************)
EmptyTable == [n \in {} |-> None]

Attr(kind, owner) == [kind |-> kind, owner |-> owner]
Missing == Attr("missing", 0)

Body(hastable, table, declared, gen, init) ==
  [hastable |-> hastable, table |-> table, declared |-> declared,
   gen |-> gen, init |-> init]

\* attrs.keys() restricted to the names a table can hold: the keys
\* __DEFAULT_ATTRS__, __R6CLASSGENERATOR__, __doc__ and __init__ are never
\* attribute names of an R6 object in this model.
AttrKeys(body) == body.declared

SeqToSet(s) == {s[i] : i \in 1..Len(s)}
Tail0(s) == IF Len(s) = 0 THEN <<>> ELSE Tail(s)

\* The C3 merge of type.__new__: the first head that is in no tail, repeatedly.
RECURSIVE c3merge(_)
c3merge(seqs) ==
  LET live == SelectSeq(seqs, LAMBDA s : Len(s) > 0)
      good(i) == \A j \in 1..Len(live) : live[i][1] \notin SeqToSet(Tail0(live[j]))
      cands == {i \in 1..Len(live) : good(i)}
  IN IF Len(live) = 0 THEN [ok |-> TRUE, seq |-> <<>>]
     ELSE IF cands = {} THEN [ok |-> FALSE, seq |-> <<>>]
     ELSE LET i == CHOOSE k \in cands : \A l \in cands : k <= l
              h == live[i][1]
              rest == c3merge([j \in 1..Len(live) |->
                                 IF live[j][1] = h THEN Tail(live[j]) ELSE live[j]])
          IN [ok |-> rest.ok, seq |-> <<h>> \o rest.seq]

\* The __mro__ of a class with id self and the given bases.
mro(cs, self, bases) ==
  LET m == c3merge([i \in 1..Len(bases) |-> cs[bases[i]].mro] \o <<bases>>)
  IN [ok |-> m.ok, seq |-> <<self>> \o m.seq]

\* hasattr(b, '__DEFAULT_ATTRS__') and b.__DEFAULT_ATTRS__: Python looks the
\* attribute up along b.__mro__.
hasattr_DEFAULT_ATTRS(cs, b) ==
  \E i \in 1..Len(cs[b].mro) : cs[cs[b].mro[i]].hastable

getattr_DEFAULT_ATTRS(cs, b) ==
  LET m == cs[b].mro
      i == CHOOSE k \in 1..Len(m) :
             /\ cs[m[k]].hastable
             /\ \A l \in 1..(k - 1) : ~cs[m[l]].hastable
  IN cs[m[i]].table

\* The loop over bases of R6Meta.__new__: the index of the first direct base
\* that has the attribute, 0 when the loop ends without a break.
FirstBaseWithTable(cs, bases) ==
  LET hits == {i \in 1..Len(bases) : hasattr_DEFAULT_ATTRS(cs, bases[i])}
  IN IF hits = {} THEN 0 ELSE CHOOSE k \in hits : \A l \in hits : k <= l

\* default_attrs as R6Meta.__new__ resolves it: found is FALSE when it is
\* still None after the loop.
ResolveDefaultAttrs(cs, bases, body) ==
  LET i == FirstBaseWithTable(cs, bases)
  IN IF body.hastable THEN [found |-> TRUE, table |-> body.table]
     ELSE IF i # 0 THEN [found |-> TRUE, table |-> getattr_DEFAULT_ATTRS(cs, bases[i])]
     ELSE [found |-> FALSE, table |-> EmptyTable]

\* Mutant of InjectedKeys: the loop runs over every key of the table, also
\* those the class body declares.
InjectedKeys_NoDifference(default_attrs, body) == DOMAIN default_attrs

\* The keys the injection loop runs over.
InjectedKeys(default_attrs, body) == (DOMAIN default_attrs) \ AttrKeys(body)

\* What the injection loop stores under key.
Injected(default_attrs, key, self) ==
  IF default_attrs[key] # None
  THEN Attr("property", self)     \* wrapper(dollar_getter(key))
  ELSE Attr("function", self)     \* dollar_getter(key)

\* R6Meta.__new__(meta, name, bases, attrs) with the classes cs in existence.
\* The assertion len(attr_names) == len(default_attrs) holds of every dict.
\* status is "ok", "ValueError" (no table anywhere) or "TypeError" (raised by
\* type.__new__: a name that is no str, or bases with no consistent mro).
R6Meta_new(cs, name, bases, body) ==
  LET self == Len(cs) + 1
      d == ResolveDefaultAttrs(cs, bases, body)
      keys == InjectedKeys(d.table, body)
      m == mro(cs, self, bases)
      cls == [name |-> name, bases |-> bases, mro |-> m.seq,
              hastable |-> body.hastable, table |-> body.table,
              attrs |-> [n \in AttrKeys(body) \cup keys |->
                           IF n \in keys THEN Injected(d.table, n, self)
                           ELSE Attr("explicit", self)],
              gen |-> body.gen, init |-> body.init]
      status == IF ~d.found THEN "ValueError"
                ELSE IF name = NULL \/ ~m.ok THEN "TypeError"
                ELSE "ok"
  IN [status |-> status, default_attrs |-> d.table, cls |-> cls]

\* Attribute lookup on the type of an instance: the entry of the first class
\* of the mro whose own dict has the name.
LookupAttr(cs, c, n) ==
  LET m == cs[c].mro
      hits == {i \in 1..Len(m) : n \in DOMAIN cs[m[i]].attrs}
  IN IF hits = {} THEN Missing
     ELSE cs[m[CHOOSE k \in hits : \A l \in hits : k <= l]].attrs[n]

\* The classes that exist once the module is imported.
SupportsSEXP ==
  [name |-> "SupportsSEXP", bases |-> <<>>, mro |-> <<1>>,
   hastable |-> FALSE, table |-> EmptyTable,
   attrs |-> [n \in {"__sexp__"} |-> Attr("explicit", 1)],
   gen |-> 0, init |-> ""]

R6Body == Body(TRUE, EmptyTable, {"__ROBJECT__", "__repr__", "__sexp__"}, 0, "")

R6 == 2    \* the id of class R6, the second class the module creates

ModuleClasses ==
  <<SupportsSEXP, R6Meta_new(<<SupportsSEXP>>, "R6", <<1>>, R6Body).cls>>

(***************************************************************************)
(* Foreign handles.  A handle is what the R side shows of an object when   *)
(* it is read: its address (rid), its R type and class vector, and, for    *)
(* the attributes the code fetches with `$`, classname (NULL or the one    *)
(* string of the vector) and the names of public_methods and of            *)
(* public_fields (the empty set stands for names being NULL).              *)
(***************************************************************************)
AllHandles ==
  [rid : Rids, typeof : {"ENVSXP"}, rclass : {"R6ClassGenerator", "environment"},
   classname : ClassNames \cup {NULL},
   methods : SUBSET Names, fields : SUBSET Names]

\* The handles host code wraps in Spec: the Stack generator of the scenario
\* (methods push and pop, field size) and objects with no public member.
Handles ==
  {h \in AllHandles :
     \/ h.methods = {"push", "pop"} /\ h.fields = {"size"}
     \/ h.methods = {} /\ h.fields = {}}

NoHandle ==
  [rid |-> 0, typeof |-> "", rclass |-> "", classname |-> NULL,
   methods |-> {}, fields |-> {}]

is_r6classgenerator(robj) ==
  robj.typeof = "ENVSXP" /\ robj.rclass = "R6ClassGenerator"

\* res = dollar(obj, 'classname'): NULL is returned as it is, a character
\* vector (of length 1, as asserted) as its one string res[0].
_classname(obj) ==
  LET res == obj.classname
  IN res

\* dict.update((x, v) for x in names)
Update(res, names, v) ==
  [n \in (DOMAIN res) \cup names |-> IF n \in names THEN v ELSE res[n]]

\* Mutant of _build_attr_dict: the fields are entered before the methods.
_build_attr_dict_FieldsFirst(clsgenerator) ==
  LET res0 == EmptyTable
      res1 == IF clsgenerator.fields # {}
              THEN Update(res0, clsgenerator.fields, Property) ELSE res0
      res2 == IF clsgenerator.methods # {}
              THEN Update(res1, clsgenerator.methods, None) ELSE res1
  IN res2

_build_attr_dict(clsgenerator) ==
  LET res0 == EmptyTable
      res1 == IF clsgenerator.methods # {}
              THEN Update(res0, clsgenerator.methods, None) ELSE res0
      res2 == IF clsgenerator.fields # {}
              THEN Update(res1, clsgenerator.fields, Property) ELSE res1
  IN res2

\* r6_createcls: the outcome of the call R6Meta(name, (R6,), {...}).
r6_createcls(cs, clsgenerator) ==
  R6Meta_new(cs, _classname(clsgenerator), <<R6>>,
             Body(TRUE, _build_attr_dict(clsgenerator), {},
                  clsgenerator.rid, "_r6__init__"))

\* What a class-map function hands back: the class, the classes and the map
\* after the call, whether r6_createcls ran, and the outcome.
MapResult(status, cls, cs, cm, built) ==
  [status |-> status, cls |-> cls, classes |-> cs, classmap |-> cm, built |-> built]

_static_classmap(cs, cm, clsgenerator) ==
  MapResult("ok",
            IF cm[clsgenerator.rid] # 0 THEN cm[clsgenerator.rid] ELSE R6,
            cs, cm, FALSE)

\* Mutant of _dynamic_classmap: no membership test, the class is made and
\* stored on every call.
_dynamic_classmap_NoTest(cs, cm, clsgenerator) ==
  LET classid == clsgenerator.rid
      made == r6_createcls(cs, clsgenerator)
  IN IF made.status = "ok"
     THEN MapResult("ok", Len(cs) + 1, Append(cs, made.cls),
                    [cm EXCEPT ![classid] = Len(cs) + 1], TRUE)
     ELSE MapResult(made.status, 0, cs, cm, TRUE)

_dynamic_classmap(cs, cm, clsgenerator) ==
  LET classid == clsgenerator.rid
      made == r6_createcls(cs, clsgenerator)
  IN IF cm[classid] = 0
     THEN IF made.status = "ok"
          THEN MapResult("ok", Len(cs) + 1, Append(cs, made.cls),
                         [cm EXCEPT ![classid] = Len(cs) + 1], TRUE)
          ELSE MapResult(made.status, 0, cs, cm, TRUE)
     ELSE MapResult("ok", cm[classid], cs, cm, FALSE)

\* self.__CLASSMAP__() of the two proxy classes.
CLASSMAP(policy, cs, cm, clsgenerator) ==
  IF policy = "static" THEN _static_classmap(cs, cm, clsgenerator)
  ELSE _dynamic_classmap(cs, cm, clsgenerator)

NoProxy == [robj |-> NoHandle, policy |-> "none", R6CLASS |-> 0, new |-> 0]

\* The first class of the mro of c that carries field f (init or gen).
FirstInit(cs, c) ==
  LET m == cs[c].mro
      hits == {i \in 1..Len(m) : cs[m[i]].init # ""}
  IN IF hits = {} THEN "" ELSE cs[m[CHOOSE k \in hits : \A l \in hits : k <= l]].init

FirstGen(cs, c) ==
  LET m == cs[c].mro
      hits == {i \in 1..Len(m) : cs[m[i]].gen # 0}
  IN IF hits = {} THEN 0 ELSE cs[m[CHOOSE k \in hits : \A l \in hits : k <= l]].gen

\* _r6__init__(self, *args): the value stored in self.__ROBJECT__.
_r6__init__(cs, c, args) ==
  Invoke(dollar(FirstGen(cs, c), "new"), args)

\* Calling the class c with args: c.__init__ is _r6__init__ when a class of
\* the mro defines it and object.__init__ otherwise, which takes no argument
\* and leaves __ROBJECT__ the class attribute None of R6.
Construct(cs, c, args) ==
  IF FirstInit(cs, c) = "_r6__init__"
  THEN [status |-> "ok", cls |-> c, robject |-> _r6__init__(cs, c, args)]
  ELSE IF args # <<>>
  THEN [status |-> "TypeError", cls |-> 0, robject |-> NoVal]
  ELSE [status |-> "ok", cls |-> c, robject |-> NoVal]

(***************************************************************************)
(* Spec: host code wraps handles and calls new() on the last proxy.        *)
(***************************************************************************)
NoThreads == [t \in Threads |-> [pc |-> "idle", clsgenerator |-> NoHandle,
                                 made |-> 0, ret |-> 0]]

Init ==
  /\ classes = ModuleClasses
  /\ classmap = [r \in Rids |-> 0]
  /\ proxy = NoProxy
  /\ result = [op |-> "none"]
  /\ th = NoThreads

\* R6StaticClassGenerator(robj) and R6DynamicClassGenerator(robj):
\* R6ClassGenerator.__init__.  robj is an environment, which is what
\* Environment.__init__ takes.  No class of the proxy has an attribute new
\* (the table leaves it out), so self.new is set to r6cls.  When
\* __CLASSMAP__ raises, the constructor raises and the host keeps the proxy
\* it had.
Wrap(policy, robj) ==
  LET r == CLASSMAP(policy, classes, classmap, robj)
  IN /\ classes' = r.classes
     /\ classmap' = r.classmap
     /\ proxy' = IF r.status = "ok"
                 THEN [robj |-> robj, policy |-> policy,
                       R6CLASS |-> r.cls, new |-> r.cls]
                 ELSE proxy
     /\ result' = [op |-> "wrap", status |-> r.status, policy |-> policy,
                   robj |-> robj, built |-> r.built, cls |-> r.cls,
                   seen |-> classmap[robj.rid] # 0]
     /\ UNCHANGED th

\* proxy.new(*args)
New(args) ==
  /\ proxy # NoProxy
  /\ LET made == Construct(classes, proxy.new, args)
     IN result' = [op |-> "new", status |-> made.status, args |-> args,
                   cls |-> made.cls, robject |-> made.robject]
  /\ UNCHANGED <<classes, classmap, proxy, th>>

Next ==
  \/ \E policy \in {"static", "dynamic"}, robj \in Handles : Wrap(policy, robj)
  \/ \E args \in ArgLists : New(args)

Spec == Init /\ [][Next]_vars

(***************************************************************************)
(* SpecSynth: r6_createcls applied to one descriptor, any sets of method   *)
(* and field names.                                                        *)
(***************************************************************************)
InitSynth ==
  /\ classes = ModuleClasses
  /\ classmap = [r \in Rids |-> 0]
  /\ proxy = NoProxy
  /\ result \in {[op |-> "input", clsgenerator |-> h] : h \in AllHandles}
  /\ th = NoThreads

Synthesize ==
  /\ result.op = "input"
  /\ LET made == r6_createcls(classes, result.clsgenerator)
     IN /\ classes' = IF made.status = "ok" THEN Append(classes, made.cls) ELSE classes
        /\ result' = [op |-> "synth", clsgenerator |-> result.clsgenerator,
                      status |-> made.status, table |-> made.default_attrs,
                      cls |-> IF made.status = "ok" THEN Len(classes) + 1 ELSE 0]
  /\ UNCHANGED <<classmap, proxy, th>>

NextSynth == Synthesize

SpecSynth == InitSynth /\ [][NextSynth]_vars

(***************************************************************************)
(* Claims checked under Spec and SpecSynth.                                *)
(***************************************************************************)
ClassesOf(cs, r) == {i \in 1..Len(cs) : cs[i].gen = r}

DynamicWrapDone(res) ==
  res.op = "wrap" /\ res.policy = "dynamic" /\ res.status = "ok"

\* C1: under the dynamic policy at most one local type ever exists per rid, an
\* entry of the cache is never replaced or removed, r6_createcls is not run
\* for a rid that is in the cache, and every wrap of a rid resolves to the
\* class the cache holds for it, which is the one built on the first wrap.
C1_IdentityStable ==
  /\ [](\A r \in Rids :
          /\ Cardinality(ClassesOf(classes, r)) <= 1
          /\ classmap[r] # 0 => ClassesOf(classes, r) = {classmap[r]})
  /\ [][/\ \A r \in Rids :
             classmap[r] # 0 =>
               /\ classmap'[r] = classmap[r]
               /\ ClassesOf(classes', r) = ClassesOf(classes, r)
        /\ DynamicWrapDone(result') =>
             /\ proxy'.R6CLASS = classmap'[result'.robj.rid]
             /\ proxy'.R6CLASS # 0
             /\ result'.built = (classmap[result'.robj.rid] = 0)]_vars

\* C1 witness: a second dynamic wrap of a rid came back with the cached class.
C1_Witness ==
  /\ DynamicWrapDone(result)
  /\ result.seen
  /\ proxy.R6CLASS = classmap[proxy.robj.rid]
  /\ classes[proxy.R6CLASS].gen = proxy.robj.rid

\* C4: new(args) calls the foreign constructor of the wrapped handle with
\* args and returns an instance of the class resolved at wrap time whose
\* __ROBJECT__ is what that call returned, under either policy.
C4_NewCallsForeignConstructor ==
  result.op = "new" =>
    /\ result.status = "ok"
    /\ result.cls = proxy.R6CLASS
    /\ result.robject = Invoke(dollar(proxy.robj.rid, "new"), result.args)

\* C8: constructing a proxy from a handle that is_r6classgenerator rejects
\* fails, and leaves no proxy.
C8_NonGeneratorRejected ==
  /\ (result.op = "wrap" /\ ~is_r6classgenerator(result.robj)) =>
       result.status # "ok"
  /\ proxy # NoProxy => is_r6classgenerator(proxy.robj)

\* C9: the dynamic wrap of a class generator whose classname is NULL, not yet
\* in the cache, completes, and the class it builds has a placeholder name,
\* a string.
C9_NullClassnameSynthesizes ==
  (/\ result.op = "wrap"
   /\ result.policy = "dynamic"
   /\ is_r6classgenerator(result.robj)
   /\ result.robj.classname = NULL
   /\ ~result.seen) =>
    (/\ result.status = "ok"
     /\ classes[result.cls].name # NULL)

\* The table section 4.4 describes: the base type's table, then None for every
\* method name, then property for every field name.
SpecTable(base, methods, fields) ==
  [n \in (DOMAIN base) \cup methods \cup fields |->
     IF n \in fields THEN Property
     ELSE IF n \in methods THEN None
     ELSE base[n]]

\* C5: for every descriptor the table r6_createcls gives the class is the
\* table of the base class R6 overridden by None for the method names and
\* then by property for the field names; a name in both sets is a property.
C5_TableFromDescriptor ==
  result.op = "synth" =>
    /\ result.table = SpecTable(classes[R6].table,
                                result.clsgenerator.methods,
                                result.clsgenerator.fields)
    /\ result.status = "ok" =>
         /\ classes[result.cls].hastable
         /\ classes[result.cls].table = result.table
         /\ classes[result.cls].bases = <<R6>>

\* C5 witness: a class was synthesized from a descriptor that lists size as a
\* method and as a field, and push as a method only.
C5_Witness ==
  /\ result.op = "synth"
  /\ result.status = "ok"
  /\ "size" \in result.clsgenerator.methods \cap result.clsgenerator.fields
  /\ "push" \in result.clsgenerator.methods \ result.clsgenerator.fields
  /\ classes[result.cls].table["size"] = Property
  /\ classes[result.cls].table["push"] = None

(***************************************************************************)
(* SpecMeta: host code runs class statements with metaclass R6Meta, then   *)
(* reads and calls attributes of instances of the classes.                 *)
(***************************************************************************)
UserCount(cs) == Len(cs) - Len(ModuleClasses)

\* The tables and bodies a class statement may have.
UserTables == {[n \in {"push", "size"} |-> IF n = "push" THEN None ELSE Property]}
DeclNames == {"push"}
AccessNames == {"push", "size"}
Objects == {1}     \* the R objects the instances of SpecMeta own

Bodies ==
  {Body(FALSE, EmptyTable, d, 0, "") : d \in SUBSET DeclNames}
  \cup {Body(TRUE, t, d, 0, "") : t \in UserTables, d \in SUBSET DeclNames}

\* Whether instances of c forward to R: c is R6 or a subclass of it.
IsR6Class(cs, c) == R6 \in SeqToSet(cs[c].mro)

\* The base lists of the class statements: one direct base among the classes
\* that exist, or two distinct ones among R6 and its subclasses, in an order
\* that has a consistent mro.
BaseLists(cs) ==
  LET family == {c \in 1..Len(cs) : IsR6Class(cs, c)}
  IN {<<a>> : a \in 1..Len(cs)}
     \cup {p \in family \X family : p[1] # p[2] /\ mro(cs, Len(cs) + 1, p).ok}

\* class UserClass(*bases, metaclass=R6Meta): <body>
DefineClass(bases, body) ==
  /\ LET made == R6Meta_new(classes, "UserClass", bases, body)
     IN /\ classes' = IF made.status = "ok" THEN Append(classes, made.cls) ELSE classes
        /\ result' = [op |-> "class", status |-> made.status,
                      cls |-> IF made.status = "ok" THEN Len(classes) + 1 ELSE 0,
                      bases |-> bases, hastable |-> body.hastable,
                      declared |-> body.declared,
                      default_attrs |-> made.default_attrs]
  /\ UNCHANGED <<classmap, proxy, th>>

\* instance.name for an instance of class c whose __ROBJECT__ is the R object
\* h: a declared attribute as declared, an injected function as a bound
\* method, an injected property by running its getter inner(instance).
ReadAttr(cs, c, h, name) ==
  LET a == LookupAttr(cs, c, name)
  IN IF a.kind = "missing" THEN [status |-> "AttributeError", value |-> NoVal]
     ELSE IF a.kind = "explicit"
     THEN [status |-> "ok", value |-> Val("explicit", a.owner, name, <<>>)]
     ELSE IF a.kind = "function"
     THEN [status |-> "ok", value |-> Val("method", a.owner, name, <<>>)]
     ELSE [status |-> "ok", value |-> dollar(h, name)]

\* instance.name(*args): a bound method passes the instance first, and inner
\* takes the one parameter obj; what a property read is called as R calls it.
CallAttr(cs, c, h, name, args) ==
  LET a == LookupAttr(cs, c, name)
  IN IF a.kind = "missing" THEN [status |-> "AttributeError", value |-> NoVal]
     ELSE IF a.kind = "explicit"
     THEN [status |-> "ok", value |-> Val("explicit", a.owner, name, args)]
     ELSE IF a.kind = "function"
     THEN IF Len(args) = 0
          THEN [status |-> "ok", value |-> dollar(h, name)]
          ELSE [status |-> "TypeError", value |-> NoVal]
     ELSE [status |-> "ok", value |-> Invoke(dollar(h, name), args)]

Read(c, h, name) ==
  /\ IsR6Class(classes, c)
  /\ LET r == ReadAttr(classes, c, h, name)
     IN result' = [op |-> "read", status |-> r.status, cls |-> c, handle |-> h,
                   name |-> name, args |-> <<>>, value |-> r.value,
                   attr |-> LookupAttr(classes, c, name)]
  /\ UNCHANGED <<classes, classmap, proxy, th>>

Call(c, h, name, args) ==
  /\ IsR6Class(classes, c)
  /\ LET r == CallAttr(classes, c, h, name, args)
     IN result' = [op |-> "call", status |-> r.status, cls |-> c, handle |-> h,
                   name |-> name, args |-> args, value |-> r.value,
                   attr |-> LookupAttr(classes, c, name)]
  /\ UNCHANGED <<classes, classmap, proxy, th>>

\* The host runs one more class statement, MaxUserClasses at most.
ClassStatement ==
  /\ UserCount(classes) < MaxUserClasses
  /\ \E bases \in BaseLists(classes), body \in Bodies : DefineClass(bases, body)

NextMeta ==
  \/ ClassStatement
  \/ \E c \in 1..Len(classes), h \in Objects, name \in AccessNames : Read(c, h, name)
  \/ \E c \in 1..Len(classes), h \in Objects, name \in AccessNames, args \in ArgLists :
       Call(c, h, name, args)

SpecMeta == Init /\ [][NextMeta]_vars

\* SpecDefine: the class statements alone.
NextDefine == ClassStatement

SpecDefine == Init /\ [][NextDefine]_vars

(***************************************************************************)
(* Claims checked under SpecDefine and SpecMeta.                           *)
(***************************************************************************)
ClassDefined == result.op = "class" /\ result.status = "ok"

\* C2: a name declared in the body of a class and present in its effective
\* table stays the declaration: lookup on the class finds the declared
\* attribute, and the metaclass injects accessors for exactly the table names
\* the body does not declare, each of the kind the table gives.
C2_ExplicitDeclarationWins ==
  ClassDefined =>
    LET c == result.cls
        t == result.default_attrs
    IN /\ \A n \in result.declared \cap DOMAIN t :
            /\ classes[c].attrs[n] = Attr("explicit", c)
            /\ LookupAttr(classes, c, n) = Attr("explicit", c)
            /\ \A h \in Objects :
                 ReadAttr(classes, c, h, n).value = Val("explicit", c, n, <<>>)
       /\ \A n \in (DOMAIN t) \ result.declared :
            classes[c].attrs[n] =
              Attr(IF t[n] = Property THEN "property" ELSE "function", c)
       /\ DOMAIN classes[c].attrs = result.declared \cup DOMAIN t

\* C2 witness: a class was defined whose body declares push while its
\* effective table maps push, and size was injected beside it.
C2_Witness ==
  /\ ClassDefined
  /\ "push" \in result.declared
  /\ "push" \in DOMAIN result.default_attrs
  /\ classes[result.cls].attrs["push"] = Attr("explicit", result.cls)
  /\ classes[result.cls].attrs["size"] = Attr("property", result.cls)

\* C3: calling a name the metaclass injected as a plain forward, with any
\* number of arguments, fetches the R attribute on the instance's handle,
\* calls it with those arguments and returns the result; reading a name
\* injected as a property forward returns the fetched R value, not called.
C3_ForwardedCallInvokes ==
  /\ (result.op = "call" /\ result.attr.kind = "function") =>
       /\ result.status = "ok"
       /\ result.value = Invoke(dollar(result.handle, result.name), result.args)
  /\ (result.op = "read" /\ result.attr.kind = "property") =>
       /\ result.status = "ok"
       /\ result.value = dollar(result.handle, result.name)

\* The table of the first class of the mro of c that declares one itself.
FirstDeclaredTable(cs, c) ==
  LET m == cs[c].mro
      hits == {i \in 1..Len(m) : cs[m[i]].hastable}
  IN cs[m[CHOOSE k \in hits : \A l \in hits : k <= l]].table

\* C6: the effective table of a class defined without a table of its own is
\* the table of the first class of its mro that declares one, for every
\* inheritance graph; a class that supplies a table uses that one; and the
\* definition fails when no class of the chain declares a table.
C6_EffectiveTableByMro ==
  result.op = "class" =>
    /\ result.status = "ok" =>
         /\ \E i \in 1..Len(classes[result.cls].mro) :
              classes[classes[result.cls].mro[i]].hastable
         /\ result.default_attrs = FirstDeclaredTable(classes, result.cls)
    /\ result.status = "ValueError" <=>
         /\ ~result.hastable
         /\ \A i \in 1..Len(result.bases) :
              \A j \in 1..Len(classes[result.bases[i]].mro) :
                ~classes[classes[result.bases[i]].mro[j]].hastable

\* What lookup of n on c finds when the own dict of c is passed over: the
\* entry of the first class after c in the mro of c.
InheritedAttr(cs, c, n) ==
  LET m == Tail(cs[c].mro)
      hits == {i \in 1..Len(m) : n \in DOMAIN cs[m[i]].attrs}
  IN IF hits = {} THEN Missing
     ELSE cs[m[CHOOSE k \in hits : \A l \in hits : k <= l]].attrs[n]

\* C10: when a class C is defined without declaring n, n is in the effective
\* table, and the class C inherits n from declares it explicitly, n on C is
\* still that explicit declaration, not an accessor injected for C.
C10_OverrideSurvivesSubclassing ==
  ClassDefined =>
    \A n \in (DOMAIN result.default_attrs) \ result.declared :
      InheritedAttr(classes, result.cls, n).kind = "explicit" =>
        LookupAttr(classes, result.cls, n) = InheritedAttr(classes, result.cls, n)

(***************************************************************************)
(* SpecConc: threads of the host call _dynamic_classmap.  The function     *)
(* takes no lock, so the interpreter may switch threads between its        *)
(* statements: the membership test, the call of r6_createcls, the store    *)
(* into _CLASSMAP and the final read are separate steps.                   *)
(***************************************************************************)
ConcHandles == {h \in Handles : is_r6classgenerator(h) /\ h.methods # {}}

\* A thread calls _dynamic_classmap(clsgenerator).
Enter(t, clsgenerator) ==
  /\ th[t].pc \in {"idle", "done", "raised"}
  /\ UserCount(classes) < MaxBuilds
  /\ th' = [th EXCEPT ![t] = [pc |-> "check", clsgenerator |-> clsgenerator,
                              made |-> 0, ret |-> 0]]
  /\ UNCHANGED <<classes, classmap, proxy, result>>

\* if classid not in _CLASSMAP:
Check(t) ==
  /\ th[t].pc = "check"
  /\ th' = [th EXCEPT ![t].pc =
              IF classmap[th[t].clsgenerator.rid] = 0 THEN "create" ELSE "return"]
  /\ UNCHANGED <<classes, classmap, proxy, result>>

\* r6_createcls(clsgenerator), the right-hand side of the assignment.
Create(t) ==
  /\ th[t].pc = "create"
  /\ LET made == r6_createcls(classes, th[t].clsgenerator)
     IN IF made.status = "ok"
        THEN /\ classes' = Append(classes, made.cls)
             /\ th' = [th EXCEPT ![t].pc = "store", ![t].made = Len(classes) + 1]
        ELSE /\ classes' = classes
             /\ th' = [th EXCEPT ![t].pc = "raised"]
  /\ UNCHANGED <<classmap, proxy, result>>

\* _CLASSMAP[classid] = <the class just made>
Store(t) ==
  /\ th[t].pc = "store"
  /\ classmap' = [classmap EXCEPT ![th[t].clsgenerator.rid] = th[t].made]
  /\ th' = [th EXCEPT ![t].pc = "return"]
  /\ UNCHANGED <<classes, proxy, result>>

\* return _CLASSMAP[classid]
Return(t) ==
  /\ th[t].pc = "return"
  /\ th' = [th EXCEPT ![t].pc = "done",
                      ![t].ret = classmap[th[t].clsgenerator.rid]]
  /\ UNCHANGED <<classes, classmap, proxy, result>>

NextConc ==
  \/ \E t \in Threads, clsgenerator \in ConcHandles : Enter(t, clsgenerator)
  \/ \E t \in Threads : Check(t)
  \/ \E t \in Threads : Create(t)
  \/ \E t \in Threads : Store(t)
  \/ \E t \in Threads : Return(t)

SpecConc == Init /\ [][NextConc]_vars

\* C7: under every interleaving of callers of _dynamic_classmap for one rid,
\* r6_createcls makes one class for the rid and all callers are handed that
\* class: no two distinct local types exist for one rid.
C7_OneTypePerIdentityConcurrently ==
  /\ \A r \in Rids : Cardinality(ClassesOf(classes, r)) <= 1
  /\ \A t, u \in Threads :
       (/\ th[t].pc = "done"
        /\ th[u].pc = "done"
        /\ th[t].clsgenerator.rid = th[u].clsgenerator.rid) =>
         th[t].ret = th[u].ret

====
